---- MODULE Spec2Model ----
(***************************************************************************)
(* Client-side feed state of the social-media client: the global reducer   *)
(* (provider) that caches the feed, the screens that drive it, and the     *)
(* remote datastore they talk to.                                          *)
(*                                                                         *)
(* Two providers exist in the repository:                                  *)
(*   - the provider with pagination and deletePost                         *)
(*     (src/hooks/usePosts.js:101-464), used by the current screens;       *)
(*   - the older optimistic provider (src/context/AppContext.js).          *)
(***************************************************************************)
EXTENDS Integers, Sequences, FiniteSets, Bags, TLC

(***************************************************************************)
(* Bounds of the model                                                     *)
(***************************************************************************)
MaxEvents == 3         \* user actions, auth events and actions of other
                       \* clients in one behaviour
ExtraPosts == 1        \* rows of the remote posts table beyond one full page

(***************************************************************************)
(* Program constants                                                       *)
(***************************************************************************)
PAGE_SIZE == 10

NoUser == "none"
Me == "u1"
Other == "u2"
Users == {"u1", "u2", "u3"}
NoUrl == 0

\* JavaScript  x || d  on a number
OrElse(x, d) == IF x = 0 THEN d ELSE x

Max(a, b) == IF a >= b THEN a ELSE b
Min(a, b) == IF a <= b THEN a ELSE b

VARIABLES
  state,      \* the provider's reducer state
  session,    \* the auth session held by the backend client
  authInit,   \* TRUE once initializeAuth has run
  fetches,    \* fetchPosts calls in flight (a bag)
  deletes,    \* deletePost calls in flight
  toggles,    \* toggleLike calls in flight (a bag)
  details,    \* fetchPostWithLikes calls in flight
  detail,     \* PostDetailScreen: its post, error and pageLoading
  profile,    \* ProfileScreen: its posts, deleting and the confirm handler
  rPosts,     \* remote table posts
  rLikes,     \* remote table likes: set of <<user_id, post_id>>
  rImages,    \* remote object storage, bucket posts: set of file paths
  rProfiles,  \* remote table profiles: set of user ids that have a row
  nextId,     \* next id / created_at the remote datastore hands out
  optState,   \* reducer state of the optimistic provider
  optHome,    \* local state of the Home screen over that provider
  optToggles, \* toggleLike calls of the optimistic provider in flight
  optFetches, \* fetchPosts calls of the Home screen over that provider
  rt,         \* the Home screen that keeps the feed in local state and
              \* listens to change events of the likes table
  fp,         \* ProfileScreen.fetchProfile: calls, timers and the profile
  nEvents,    \* events so far, bounds the behaviour
  last        \* the operation that completed in the last step

vars == <<state, session, authInit, fetches, deletes, toggles, details, detail,
          profile, rPosts, rLikes, rImages, rProfiles, nextId,
          optState, optHome, optToggles, optFetches, rt, fp, nEvents, last>>

remoteVars == <<rPosts, rLikes, rImages, nextId>>
likeVars == <<toggles, details, detail>>
optVars == <<optState, optHome, optToggles, optFetches, rt>>
\* what the feed actions of the provider never touch
offFeed == <<likeVars, optVars, profile, fp, rProfiles>>

Idle == [op |-> "none"]

(***************************************************************************)
(* Remote datastore                                                        *)
(***************************************************************************)
Row(i, u) == [id |-> i, created_at |-> i, user_id |-> u, image_url |-> i]

\* a change event of the likes table as the channel delivers it
LikeEvent(type, postId, userId) ==
  [eventType |-> type, post_id |-> postId, user_id |-> userId]

\* who wrote the rows the remote table starts with
Owner(i) == IF i % 4 = 1 THEN "u1" ELSE IF i % 4 = 2 THEN "u2" ELSE "u3"

RECURSIVE OrderDesc(_)
\* .order('created_at', { ascending: false })
OrderDesc(S) ==
  IF S = {} THEN <<>>
  ELSE LET m == CHOOSE p \in S : \A q \in S : q.created_at <= p.created_at
       IN <<m>> \o OrderDesc(S \ {m})

\* .range(from, to) on an ordered result: rows from..to, 0-based, inclusive
Range(rows, from, to) == SubSeq(rows, from + 1, Min(to + 1, Len(rows)))

\* .select('*', { count: 'exact', head: true }).eq('post_id', id)
LikeCount(likes, id) == Cardinality({l \in likes : l[2] = id})

\* .select('id').eq('post_id', id).eq('user_id', u).maybeSingle()
UserLike(likes, id, u) == <<u, id>> \in likes

(***************************************************************************)
(* Reducer of the provider, src/hooks/usePosts.js                          *)
(***************************************************************************)
SeqFilter(s, Test(_)) == SelectSeq(s, Test)

SeqMap(s, F(_)) == [i \in 1..Len(s) |-> F(s[i])]

Ids(s) == {s[i].id : i \in 1..Len(s)}

\* a faulty ADD_POSTS that appends the payload without the duplicate filter
AddPostsNoFilter(st, payload) == [st EXCEPT !.posts = st.posts \o payload]

AddPosts(st, payload) ==
  LET fresh(p) == ~(\E i \in 1..Len(st.posts) : st.posts[i].id = p.id)
      newPosts == SeqFilter(payload, fresh)
  IN [st EXCEPT !.posts = st.posts \o newPosts]

UpdatePostLike(st, postId, liked) ==
  LET upd(post) ==
        IF post.id = postId
        THEN [post EXCEPT
                !.user_has_liked = liked,
                !.likes_count = IF liked
                                THEN OrElse(post.likes_count, 0) + 1
                                ELSE Max(0, OrElse(post.likes_count, 1) - 1)]
        ELSE post
  IN [st EXCEPT !.posts = SeqMap(st.posts, upd)]

DeletePostLocal(st, postId) ==
  LET keep(post) == post.id # postId
  IN [st EXCEPT !.posts = SeqFilter(st.posts, keep)]

appReducer(st, action) ==
  CASE action.type = "SET_USER" -> [st EXCEPT !.user = action.payload]
    [] action.type = "SET_POSTS" ->
         [st EXCEPT !.posts = action.payload, !.hasMore = TRUE]
    [] action.type = "ADD_POSTS" -> AddPosts(st, action.payload)
    [] action.type = "UPDATE_POST_LIKE" ->
         UpdatePostLike(st, action.payload.postId, action.payload.liked)
    [] action.type = "DELETE_POST" -> DeletePostLocal(st, action.payload)
    [] action.type = "SET_LOADING" -> [st EXCEPT !.loading = action.payload]
    [] action.type = "SET_LOADING_MORE" ->
         [st EXCEPT !.loadingMore = action.payload]
    [] action.type = "SET_HAS_MORE" -> [st EXCEPT !.hasMore = action.payload]
    [] OTHER -> st

Act(t, p) == [type |-> t, payload |-> p]

RECURSIVE Dispatch(_, _)
\* a batch of dispatches, reduced in order
Dispatch(st, actions) ==
  IF actions = <<>> THEN st
  ELSE Dispatch(appReducer(st, Head(actions)), Tail(actions))

\* try { body } catch (error) { handler }: what the caller gets
Return(v) == [kind |-> "return", value |-> v]
Throw(e) == [kind |-> "throw", value |-> e]

\* a faulty try/catch that lets the exception through
NoCatch(r, handler) == r

Catch(r, handler) == IF r.kind = "throw" THEN Return(handler) ELSE r

initialState ==
  [user |-> NoUser, posts |-> <<>>, loading |-> TRUE,
   loadingMore |-> FALSE, hasMore |-> TRUE]

(***************************************************************************)
(* fetchPosts of the provider: the call up to its first remote request     *)
(***************************************************************************)
\* the call in flight: from is read from the state the call was made in
FetchCall(st, isInitial) ==
  [isInitial |-> isInitial,
   userId |-> IF st.user # NoUser THEN st.user ELSE session,
   from |-> IF isInitial THEN 0 ELSE Len(st.posts),
   pc |-> "query", data |-> <<>>]

FetchStarted(st, isInitial) ==
  IF isInitial
  THEN Dispatch(st, <<Act("SET_LOADING", TRUE)>>)
  ELSE Dispatch(st, <<Act("SET_LOADING_MORE", TRUE)>>)

\* HomeScreen: useEffect on [user], run with the state st of the render that
\* has the new user: the state it leaves and the calls it makes
HomeUserEffect(st) ==
  IF st.user # NoUser /\ Len(st.posts) = 0
  THEN [state |-> FetchStarted(st, TRUE),
        calls |-> SetToBag({FetchCall(st, TRUE)})]
  ELSE [state |-> st, calls |-> EmptyBag]

(***************************************************************************)
(* Auth: initializeAuth and the onAuthStateChange listener; the Home       *)
(* screen's effect on [user] runs in the commit that follows               *)
(***************************************************************************)
initializeAuth ==
  /\ ~authInit
  /\ authInit' = TRUE
  /\ LET st == IF session # NoUser
               THEN Dispatch(state, <<Act("SET_USER", session),
                                      Act("SET_LOADING", FALSE)>>)
               ELSE Dispatch(state, <<Act("SET_LOADING", FALSE)>>)
     IN /\ state' = HomeUserEffect(st).state
        /\ fetches' = fetches (+) HomeUserEffect(st).calls
  /\ last' = Idle
  /\ UNCHANGED <<offFeed, session, deletes, remoteVars, nEvents>>

\* the listener's body for one (event, session) pair
AuthListener(st, event, sess) ==
  IF sess # NoUser
  THEN IF event = "SIGNED_IN"
       THEN Dispatch(st, <<Act("SET_USER", sess), Act("SET_POSTS", <<>>),
                           Act("SET_LOADING", FALSE)>>)
       ELSE Dispatch(st, <<Act("SET_USER", sess), Act("SET_LOADING", FALSE)>>)
  ELSE Dispatch(st, <<Act("SET_USER", NoUser), Act("SET_POSTS", <<>>),
                      Act("SET_LOADING", FALSE)>>)

onAuthStateChange(event) ==
  /\ nEvents < MaxEvents
  /\ nEvents' = nEvents + 1
  /\ CASE event = "SIGNED_IN" -> session = NoUser /\ session' = Me
       [] event = "SIGNED_OUT" -> session # NoUser /\ session' = NoUser
       [] OTHER -> session # NoUser /\ session' = session
  /\ LET st == AuthListener(state, event, session')
     IN /\ state' = HomeUserEffect(st).state
        /\ fetches' = fetches (+) HomeUserEffect(st).calls
  /\ last' = [op |-> "auth", event |-> event]
  /\ UNCHANGED <<offFeed, authInit, deletes, remoteVars>>

(***************************************************************************)
(* fetchPosts called from the Home screen's list, and its completion       *)
(***************************************************************************)
\* the FlatList is mounted unless the loading placeholder is shown
ListShown == ~(state.loading /\ state.posts = <<>>)

fetchPostsStart(isInitial) ==
  /\ nEvents < MaxEvents
  /\ ~(state.loading /\ ~isInitial)
  /\ ~(~isInitial /\ ~state.hasMore)
  /\ nEvents' = nEvents + 1
  /\ state' = FetchStarted(state, isInitial)
  /\ fetches' = fetches (+) SetToBag({FetchCall(state, isInitial)})
  /\ last' = Idle
  /\ UNCHANGED <<offFeed, session, authInit, deletes, remoteVars>>

\* HomeScreen.onRefresh: pull to refresh on the list
onRefresh ==
  /\ session # NoUser
  /\ ListShown
  /\ fetchPostsStart(TRUE)

\* HomeScreen.loadMore: onEndReached of the list
loadMore ==
  /\ session # NoUser
  /\ ListShown
  /\ ~state.loadingMore /\ state.hasMore
  /\ fetchPostsStart(FALSE)

\* a faulty finally block that forgets SET_LOADING_MORE
FetchFinallyLoadingOnly(st) == Dispatch(st, <<Act("SET_LOADING", FALSE)>>)

\* finally { SET_LOADING false; SET_LOADING_MORE false }
FetchFinally(st) ==
  Dispatch(st, <<Act("SET_LOADING", FALSE), Act("SET_LOADING_MORE", FALSE)>>)

\* the remote posts query of fetchPosts returns
fetchPostsQuery(f, ok) ==
  /\ f.pc = "query"
  /\ IF ok
     THEN /\ fetches' = (fetches (-) SetToBag({f})) (+) SetToBag(
               {[f EXCEPT !.pc = "likes",
                   !.data = Range(OrderDesc(rPosts), f.from, f.from + PAGE_SIZE - 1)]})
          /\ state' = state
          /\ last' = Idle
     ELSE /\ fetches' = fetches (-) SetToBag({f})
          /\ state' = FetchFinally(state)
          /\ last' = [op |-> "fetch", isInitial |-> f.isInitial, ok |-> FALSE,
                      rows |-> 0, ids |-> {}, failed |-> TRUE, before |-> state,
                      result |-> Catch(Throw("error"), "undefined")]
  /\ UNCHANGED <<offFeed, session, authInit, deletes, remoteVars, nEvents>>

\* a faulty end-of-feed test: any non-empty page counts as full
PageFullAny(data) == Len(data) > 0

\* data.length === PAGE_SIZE
PageFull(data) == Len(data) = PAGE_SIZE

WithLikes(post, userId, countOk, likeOk) ==
  [id |-> post.id, created_at |-> post.created_at, user_id |-> post.user_id,
   image_url |-> post.image_url,
   likes_count |-> OrElse(IF countOk THEN LikeCount(rLikes, post.id) ELSE 0, 0),
   user_has_liked |-> likeOk /\ UserLike(rLikes, post.id, userId)]

\* the like queries of every row have returned and the page is dispatched
fetchPostsDispatch(f, countOk, likeOk) ==
  /\ f.pc = "likes"
  /\ LET wl(post) == WithLikes(post, f.userId, countOk, likeOk)
         postsWithLikes == SeqMap(f.data, wl)
         full == PageFull(f.data)
         st1 == IF f.isInitial
                THEN Dispatch(state, <<Act("SET_POSTS", postsWithLikes),
                                       Act("SET_HAS_MORE", full)>>)
                ELSE Dispatch(state, <<Act("ADD_POSTS", postsWithLikes),
                                       Act("SET_HAS_MORE", full)>>)
     IN /\ state' = FetchFinally(st1)
        /\ last' = [op |-> "fetch", isInitial |-> f.isInitial, ok |-> TRUE,
                    rows |-> Len(f.data), ids |-> Ids(f.data),
                    failed |-> ~countOk \/ ~likeOk, before |-> state,
                    result |-> Catch(Return("undefined"), "undefined")]
  /\ fetches' = fetches (-) SetToBag({f})
  /\ UNCHANGED <<offFeed, session, authInit, deletes, remoteVars, nEvents>>

(***************************************************************************)
(* Other clients of the remote datastore                                   *)
(***************************************************************************)
\* the other client uploads a post
RemoteInsert(u) ==
  /\ nEvents < MaxEvents
  /\ nEvents' = nEvents + 1
  /\ rPosts' = rPosts \cup {Row(nextId, u)}
  /\ rImages' = rImages \cup {nextId}
  /\ nextId' = nextId + 1
  /\ last' = Idle
  /\ UNCHANGED <<offFeed, state, session, authInit, fetches, deletes, rLikes>>

\* the other client deletes one of its own posts
RemoteDelete(p) ==
  /\ p.user_id = Other
  /\ nEvents < MaxEvents
  /\ nEvents' = nEvents + 1
  /\ rPosts' = rPosts \ {p}
  /\ rLikes' = {l \in rLikes : l[2] # p.id}
  /\ rImages' = rImages \ {p.image_url}
  /\ last' = Idle
  /\ UNCHANGED <<offFeed, state, session, authInit, fetches, deletes, nextId>>

(***************************************************************************)
(* toggleLike of the provider and its callers                              *)
(***************************************************************************)
Success(liked) == [success |-> TRUE, liked |-> liked]
Failure(e) == [success |-> FALSE, error |-> e]

NoPost == [id |-> 0]

\* PostDetailScreen.toggleLike after the provider's call has returned
DetailAfterToggle(dt, result) ==
  IF result.success /\ dt.post # NoPost
  THEN [dt EXCEPT
          !.post.user_has_liked = result.liked,
          !.post.likes_count =
             IF result.liked
             THEN OrElse(dt.post.likes_count, 0) + 1
             ELSE Max(0, OrElse(dt.post.likes_count, 1) - 1)]
  ELSE dt

ToggleResult(t, r, failed) ==
  [op |-> "toggleLike", postId |-> t.postId, currentlyLiked |-> t.currentlyLiked,
   result |-> r, failed |-> failed, decided |-> failed, before |-> state]

\* a faulty toggleLike that updates the feed whatever the remote result
ToggleLikeDispatchAlways(st, t, done) ==
  Dispatch(st, <<Act("UPDATE_POST_LIKE",
                     [postId |-> t.postId, liked |-> ~t.currentlyLiked])>>)

\* the provider's state once toggleLike has its remote result: updatePostLike
\* is called after success only
ToggleLikeDispatch(st, t, done) ==
  IF done
  THEN Dispatch(st, <<Act("UPDATE_POST_LIKE",
                          [postId |-> t.postId, liked |-> ~t.currentlyLiked])>>)
  ELSE st

toggleLikeStart(postId, currentlyLiked, caller) ==
  /\ nEvents < MaxEvents
  /\ nEvents' = nEvents + 1
  /\ LET t == [postId |-> postId, currentlyLiked |-> currentlyLiked,
               userId |-> state.user, caller |-> caller]
     IN IF state.user = NoUser
        THEN /\ toggles' = toggles
             /\ last' = ToggleResult(t, Return(Failure("User not logged in")), FALSE)
        ELSE /\ toggles' = toggles (+) SetToBag({t})
             /\ last' = [op |-> "toggleLikeStart", postId |-> postId,
                         currentlyLiked |-> currentlyLiked, before |-> state]
  /\ UNCHANGED <<state, session, authInit, fetches, deletes, details, detail,
                 remoteVars, rProfiles, optVars, profile, fp>>

\* HomeScreen.handleLike on a rendered item
handleLike(i) ==
  /\ state.user # NoUser
  /\ i \in 1..Len(state.posts)
  /\ toggleLikeStart(state.posts[i].id, state.posts[i].user_has_liked, "home")

\* PostDetailScreen.toggleLike
detailToggleLike ==
  /\ detail.post # NoPost
  /\ state.user # NoUser
  /\ ~detail.pageLoading /\ ~detail.error
  /\ toggleLikeStart(detail.post.id, detail.post.user_has_liked, "detail")

\* the remote delete / insert on likes returns
toggleLikeReturn(t, ok) ==
  /\ BagIn(t, toggles)
  /\ toggles' = toggles (-) SetToBag({t})
  /\ LET row == <<t.userId, t.postId>>
         \* the likes table holds one row per (user_id, post_id)
         done == IF t.currentlyLiked THEN ok ELSE ok /\ row \notin rLikes
         body == IF done THEN Return(Success(~t.currentlyLiked))
                 ELSE Throw("error")
         r == Catch(body, Failure("error"))
     IN /\ rLikes' = IF ~done THEN rLikes
                     ELSE IF t.currentlyLiked THEN rLikes \ {row}
                     ELSE rLikes \cup {row}
        /\ state' = ToggleLikeDispatch(state, t, done)
        /\ detail' = IF t.caller = "detail" /\ r.kind = "return"
                     THEN DetailAfterToggle(detail, r.value)
                     ELSE detail
        /\ last' = ToggleResult(t, r, ~done)
  /\ UNCHANGED <<session, authInit, fetches, deletes, details, rPosts, rImages,
                 nextId, rProfiles, optVars, profile, fp, nEvents>>

(***************************************************************************)
(* fetchPostWithLikes of the provider and PostDetailScreen.loadPost        *)
(***************************************************************************)
DetailResult(c, r, failed, decided) ==
  [op |-> "fetchPostWithLikes", postId |-> c.postId, result |-> r,
   failed |-> failed, decided |-> decided]

\* loadPost after fetchPostWithLikes has returned postData
LoadPostDone(dt, r) ==
  IF r.kind = "throw"
  THEN [dt EXCEPT !.error = TRUE, !.pageLoading = FALSE]
  ELSE IF r.value # NoPost
       THEN [dt EXCEPT !.post = r.value, !.pageLoading = FALSE]
       ELSE [dt EXCEPT !.error = TRUE, !.pageLoading = FALSE]

\* PostDetailScreen.loadPost up to the first remote query of fetchPostWithLikes
loadPost(postId) ==
  /\ nEvents < MaxEvents
  /\ nEvents' = nEvents + 1
  /\ details = {}
  /\ LET c == [postId |-> postId, userId |-> state.user, pc |-> "post",
               row |-> NoPost, count |-> 0, failed |-> FALSE]
         dt == [detail EXCEPT !.pageLoading = TRUE, !.error = FALSE]
     IN IF state.user = NoUser
        THEN /\ details' = details
             /\ detail' = LoadPostDone(dt, Return(NoPost))
             /\ last' = DetailResult(c, Return(NoPost), FALSE, FALSE)
        ELSE /\ details' = details \cup {c}
             /\ detail' = dt
             /\ last' = Idle
  /\ UNCHANGED <<state, session, authInit, fetches, deletes, toggles,
                 remoteVars, rProfiles, optVars, profile, fp>>

\* from('posts').select().eq('id', postId).single() returns
fetchPostWithLikesPost(c, ok) ==
  /\ c \in details
  /\ c.pc = "post"
  /\ LET found == {p \in rPosts : p.id = c.postId}
         \* single() reports an error when no row matches
         done == ok /\ found # {}
         r == Catch(Throw("error"), NoPost)
     IN IF done
        THEN /\ details' = (details \ {c}) \cup
                  {[c EXCEPT !.pc = "count", !.row = CHOOSE p \in found : TRUE]}
             /\ detail' = detail
             /\ last' = Idle
        ELSE /\ details' = details \ {c}
             /\ detail' = LoadPostDone(detail, r)
             /\ last' = DetailResult(c, r, TRUE, TRUE)
  /\ UNCHANGED <<state, session, authInit, fetches, deletes, toggles,
                 remoteVars, rProfiles, optVars, profile, fp, nEvents>>

\* the count query on likes returns; an error is only logged
fetchPostWithLikesCount(c, ok) ==
  /\ c \in details
  /\ c.pc = "count"
  /\ details' = (details \ {c}) \cup
       {[c EXCEPT !.pc = "like",
                  !.count = OrElse(IF ok THEN LikeCount(rLikes, c.postId) ELSE 0, 0),
                  !.failed = ~ok]}
  /\ last' = Idle
  /\ UNCHANGED <<state, session, authInit, fetches, deletes, toggles, detail,
                 remoteVars, rProfiles, optVars, profile, fp, nEvents>>

\* the user's like row query returns; an error is only logged
fetchPostWithLikesLike(c, ok) ==
  /\ c \in details
  /\ c.pc = "like"
  /\ details' = details \ {c}
  /\ LET post == [id |-> c.row.id, created_at |-> c.row.created_at,
                  user_id |-> c.row.user_id, image_url |-> c.row.image_url,
                  likes_count |-> c.count,
                  user_has_liked |-> ok /\ UserLike(rLikes, c.postId, c.userId)]
         r == Catch(Return(post), NoPost)
     IN /\ detail' = LoadPostDone(detail, r)
        /\ last' = DetailResult(c, r, c.failed \/ ~ok, FALSE)
  /\ UNCHANGED <<state, session, authInit, fetches, deletes, toggles,
                 remoteVars, rProfiles, optVars, profile, fp, nEvents>>

(***************************************************************************)
(* deletePost of the provider                                              *)
(***************************************************************************)
DeleteResult(d, r, failed, decided) ==
  [op |-> "deletePost", postId |-> d.postId, userId |-> d.userId,
   result |-> r, failed |-> failed, decided |-> decided,
   erased |-> d.erased, postsBefore |-> state.posts]

\* ProfileScreen.handleDeletePost (confirm handler) after deletePost returned:
\* on failure it refetches, and only then clears deleting
ProfileAfterDelete(pr, r) ==
  IF r.kind = "throw" THEN [pr EXCEPT !.handler = "failed"]
  ELSE IF r.value.success
       THEN [pr EXCEPT !.handler = "idle", !.deleting = FALSE]
       ELSE [pr EXCEPT !.handler = "refetch"]

\* some screen calls deletePost(postId, imageUrl)
deletePostStart(postId, imageUrl, caller) ==
  /\ nEvents < MaxEvents
  /\ nEvents' = nEvents + 1
  /\ LET d == [postId |-> postId, imageUrl |-> imageUrl,
               userId |-> state.user, caller |-> caller,
               pc |-> IF imageUrl # NoUrl THEN "storage" ELSE "likes",
               failed |-> FALSE, erased |-> FALSE]
         r == Return(Failure("User not authenticated"))
     IN IF state.user = NoUser
        THEN /\ deletes' = deletes
             /\ last' = DeleteResult(d, r, FALSE, FALSE)
        ELSE /\ deletes' = deletes \cup {d}
             /\ last' = Idle
  /\ UNCHANGED <<state, session, authInit, fetches, remoteVars,
                 likeVars, optVars, fp, rProfiles>>

\* a screen other than the profile screen of src/screens/ProfileScreen.js
deletePostCall(p) ==
  /\ deletePostStart(p.id, p.image_url, "screen")
  /\ UNCHANGED profile

\* storage.from('posts').remove([filePath]) returns; an error is only logged
deletePostStorage(d, ok) ==
  /\ d \in deletes
  /\ d.pc = "storage"
  /\ rImages' = IF ok THEN rImages \ {d.imageUrl} ELSE rImages
  /\ deletes' = (deletes \ {d}) \cup
       {[d EXCEPT !.pc = "likes", !.failed = ~ok,
                  !.erased = ok /\ d.imageUrl \in rImages]}
  /\ last' = Idle
  /\ UNCHANGED <<offFeed, state, session, authInit, fetches, rPosts, rLikes,
                 nextId, nEvents>>

\* from('likes').delete().eq('post_id', postId) returns; its result is not read
deletePostLikes(d, ok) ==
  /\ d \in deletes
  /\ d.pc = "likes"
  /\ rLikes' = IF ok THEN {l \in rLikes : l[2] # d.postId} ELSE rLikes
  /\ deletes' = (deletes \ {d}) \cup
       {[d EXCEPT !.pc = "row", !.failed = d.failed \/ ~ok,
                  !.erased = d.erased \/ (ok /\ \E l \in rLikes : l[2] = d.postId)]}
  /\ last' = Idle
  /\ UNCHANGED <<offFeed, state, session, authInit, fetches, rPosts, rImages,
                 nextId, nEvents>>

\* a faulty deletePost that dispatches DELETE_POST whatever the posts delete
\* returned
deletePostRowAlways(d, ok) ==
  /\ d \in deletes
  /\ d.pc = "row"
  /\ deletes' = deletes \ {d}
  /\ LET body == IF ok THEN Return([success |-> TRUE]) ELSE Throw("error")
         r == Catch(body, Failure("error"))
     IN /\ rPosts' = IF ok
                     THEN {p \in rPosts : ~(p.id = d.postId /\ p.user_id = d.userId)}
                     ELSE rPosts
        /\ state' = Dispatch(state, <<Act("DELETE_POST", d.postId)>>)
        /\ profile' = IF d.caller = "profile" THEN ProfileAfterDelete(profile, r)
                      ELSE profile
        /\ last' = DeleteResult(d, r, d.failed \/ ~ok, ~ok)
  /\ UNCHANGED <<session, authInit, fetches, rLikes, rImages, nextId, nEvents,
                 likeVars, optVars, fp, rProfiles>>

\* from('posts').delete().eq('id', postId).eq('user_id', userId) returns
deletePostRow(d, ok) ==
  /\ d \in deletes
  /\ d.pc = "row"
  /\ deletes' = deletes \ {d}
  /\ LET body == IF ok THEN Return([success |-> TRUE]) ELSE Throw("error")
         r == Catch(body, Failure("error"))
     IN /\ rPosts' = IF ok
                     THEN {p \in rPosts : ~(p.id = d.postId /\ p.user_id = d.userId)}
                     ELSE rPosts
        /\ state' = IF ok THEN Dispatch(state, <<Act("DELETE_POST", d.postId)>>)
                    ELSE state
        /\ profile' = IF d.caller = "profile" THEN ProfileAfterDelete(profile, r)
                      ELSE profile
        /\ last' = DeleteResult(d, r, d.failed \/ ~ok, ~ok)
  /\ UNCHANGED <<session, authInit, fetches, rLikes, rImages, nextId, nEvents,
                 likeVars, optVars, fp, rProfiles>>

(***************************************************************************)
(* ProfileScreen (src/screens/ProfileScreen.js): the grid of the user's    *)
(* posts and the optimistic delete                                         *)
(***************************************************************************)
\* fetchUserPosts is called: on focus, or by the confirm handler
fetchUserPostsStart ==
  /\ nEvents < MaxEvents
  /\ nEvents' = nEvents + 1
  /\ profile' = [profile EXCEPT !.fetching = @ + 1]
  /\ last' = Idle
  /\ UNCHANGED <<state, session, authInit, fetches, deletes, remoteVars,
                 likeVars, optVars, fp, rProfiles>>

UserRows(u) == OrderDesc({p \in rPosts : p.user_id = u})

\* fetchUserPosts called on focus returns
fetchUserPostsReturn(ok) ==
  /\ profile.fetching > 0
  /\ profile' = [profile EXCEPT
        !.fetching = @ - 1,
        !.loading = FALSE,
        !.posts = IF ok /\ session # NoUser THEN UserRows(session) ELSE @]
  /\ last' = Idle
  /\ UNCHANGED <<state, session, authInit, fetches, deletes, remoteVars,
                 likeVars, optVars, fp, rProfiles, nEvents>>

\* the user presses ERASE in the confirmation of handleDeletePost
erasePressed(i) ==
  /\ ~profile.loading
  /\ ~profile.deleting
  /\ i \in 1..Len(profile.posts)
  /\ LET post == profile.posts[i]
         keep(q) == q.id # post.id
         pr == [profile EXCEPT !.deleting = TRUE,
                               !.posts = SeqFilter(profile.posts, keep),
                               !.target = post.id,
                               !.handler = "deletePost"]
     IN /\ deletePostStart(post.id, post.image_url, "profile")
        /\ profile' = IF state.user = NoUser
                      THEN ProfileAfterDelete(pr, Return(Failure("User not authenticated")))
                      ELSE pr

\* the refetch of the confirm handler returns and the handler completes
refetchReturn(ok) ==
  /\ profile.handler = "refetch"
  /\ profile' = [profile EXCEPT
        !.handler = "idle",
        !.deleting = FALSE,
        !.loading = FALSE,
        !.posts = IF ok /\ session # NoUser THEN UserRows(session) ELSE @]
  /\ last' = [op |-> "handleDeletePost", postId |-> profile.target,
              success |-> FALSE, refetchOk |-> ok]
  /\ UNCHANGED <<state, session, authInit, fetches, deletes, remoteVars,
                 likeVars, optVars, fp, rProfiles, nEvents>>

initialProfile ==
  [posts |-> <<>>, loading |-> TRUE, deleting |-> FALSE, fetching |-> 0,
   target |-> 0, handler |-> "idle"]

\* the newest row of user u: the one row of u the feed model erases
Newest(u) ==
  LET mine == {p \in rPosts : p.user_id = u}
  IN {p \in mine : \A q \in mine : q.created_at <= p.created_at}

(***************************************************************************)
(* The feed: provider, Home screen, remote datastore                       *)
(***************************************************************************)
InitRemote(n) ==
  /\ rPosts = {Row(i, Owner(i)) : i \in 1..n}
  /\ rImages = 1..n
  /\ nextId = n + 1

initialDetail == [post |-> NoPost, error |-> FALSE, pageLoading |-> TRUE]

LikesIdle == toggles = EmptyBag /\ details = {} /\ detail = initialDetail

OptIdle ==
  /\ optState = 0 /\ optHome = 0 /\ optToggles = EmptyBag /\ optFetches = EmptyBag
  /\ rt = 0

OffFeedIdle ==
  /\ LikesIdle
  /\ OptIdle
  /\ profile = initialProfile
  /\ fp = 0
  /\ rProfiles = {}

Init ==
  /\ state = initialState
  /\ session \in {NoUser, Me}
  /\ authInit = FALSE
  /\ fetches = EmptyBag
  /\ deletes = {}
  /\ \E n \in {2, PAGE_SIZE + ExtraPosts} : InitRemote(n)
  /\ rLikes = {}
  /\ nEvents = 0
  /\ last = Idle
  /\ OffFeedIdle

\* the user erases the newest of their posts, the other client the newest of
\* its own; every step that starts a call or changes the remote tables from
\* outside counts against MaxEvents
Next ==
  \/ initializeAuth
  \/ \E e \in {"SIGNED_IN", "SIGNED_OUT", "TOKEN_REFRESHED"} : onAuthStateChange(e)
  \/ onRefresh
  \/ loadMore
  \/ \E f \in BagToSet(fetches), ok \in BOOLEAN : fetchPostsQuery(f, ok)
  \/ \E f \in BagToSet(fetches), countOk \in BOOLEAN, likeOk \in BOOLEAN :
       fetchPostsDispatch(f, countOk, likeOk)
  \/ \E p \in Newest(session) : deletePostCall(p)
  \/ \E d \in deletes, ok \in BOOLEAN : deletePostStorage(d, ok)
  \/ \E d \in deletes, ok \in BOOLEAN : deletePostLikes(d, ok)
  \/ \E d \in deletes, ok \in BOOLEAN : deletePostRow(d, ok)
  \/ RemoteInsert(Other)
  \/ \E p \in Newest(Other) : RemoteDelete(p)

Spec == Init /\ [][Next]_vars

(***************************************************************************)
(* Like toggles on a loaded feed: the provider and HomeScreen.handleLike,  *)
(* the logged-in user being the only one who acts                          *)
(***************************************************************************)
LoggedIn(posts) ==
  [user |-> Me, posts |-> posts, loading |-> FALSE, loadingMore |-> FALSE,
   hasMore |-> FALSE]

\* the feed as fetchPosts builds it from the remote tables
LoadedFeed ==
  LET wl(post) == WithLikes(post, Me, TRUE, TRUE)
  IN SeqMap(OrderDesc(rPosts), wl)

InitLikes ==
  /\ session = Me
  /\ authInit = TRUE
  /\ InitRemote(2)
  /\ rLikes \in SUBSET {<<Me, 1>>, <<Other, 1>>, <<Me, 2>>}
  /\ state = LoggedIn(LoadedFeed)
  /\ fetches = EmptyBag
  /\ deletes = {}
  /\ nEvents = 0
  /\ last = Idle
  /\ OffFeedIdle

NextLikes ==
  \/ \E i \in 1..Len(state.posts) : handleLike(i)
  \/ \E t \in BagToSet(toggles), ok \in BOOLEAN : toggleLikeReturn(t, ok)

SpecLikes == InitLikes /\ [][NextLikes]_vars

(***************************************************************************)
(* Every operation of the provider over a small remote table               *)
(***************************************************************************)
InitProvider ==
  /\ state = initialState
  /\ session \in {NoUser, Me}
  /\ authInit = FALSE
  /\ fetches = EmptyBag
  /\ deletes = {}
  /\ InitRemote(2)
  /\ rLikes \in {{}, {<<Me, 1>>, <<Other, 1>>}}
  /\ nEvents = 0
  /\ last = Idle
  /\ OffFeedIdle

NextProvider ==
  \/ initializeAuth
  \/ onRefresh
  \/ loadMore
  \/ \E f \in BagToSet(fetches), ok \in BOOLEAN : fetchPostsQuery(f, ok)
  \/ \E f \in BagToSet(fetches), countOk \in BOOLEAN, likeOk \in BOOLEAN :
       fetchPostsDispatch(f, countOk, likeOk)
  \/ \E p \in Newest(session) : deletePostCall(p)
  \/ \E d \in deletes, ok \in BOOLEAN : deletePostStorage(d, ok)
  \/ \E d \in deletes, ok \in BOOLEAN : deletePostLikes(d, ok)
  \/ \E d \in deletes, ok \in BOOLEAN : deletePostRow(d, ok)
  \/ \E i \in 1..Len(state.posts) : handleLike(i)
  \/ detailToggleLike
  \/ \E t \in BagToSet(toggles), ok \in BOOLEAN : toggleLikeReturn(t, ok)
  \/ \E p \in rPosts : loadPost(p.id)
  \/ \E c \in details, ok \in BOOLEAN : fetchPostWithLikesPost(c, ok)
  \/ \E c \in details, ok \in BOOLEAN : fetchPostWithLikesCount(c, ok)
  \/ \E c \in details, ok \in BOOLEAN : fetchPostWithLikesLike(c, ok)

SpecProvider == InitProvider /\ [][NextProvider]_vars

(***************************************************************************)
(* deletePost called on any row of the table, the caller's own or not      *)
(***************************************************************************)
InitDelete ==
  /\ state = initialState
  /\ session = Me
  /\ authInit = FALSE
  /\ fetches = EmptyBag
  /\ deletes = {}
  /\ InitRemote(2)
  /\ rLikes \in {{}, {<<Me, 1>>, <<Other, 2>>}}
  /\ nEvents = 0
  /\ last = Idle
  /\ OffFeedIdle

NextDelete ==
  \/ initializeAuth
  \/ onRefresh
  \/ \E f \in BagToSet(fetches), ok \in BOOLEAN : fetchPostsQuery(f, ok)
  \/ \E f \in BagToSet(fetches), countOk \in BOOLEAN, likeOk \in BOOLEAN :
       fetchPostsDispatch(f, countOk, likeOk)
  \/ \E p \in rPosts : deletePostCall(p)
  \/ \E d \in deletes, ok \in BOOLEAN : deletePostStorage(d, ok)
  \/ \E d \in deletes, ok \in BOOLEAN : deletePostLikes(d, ok)
  \/ \E d \in deletes, ok \in BOOLEAN : deletePostRow(d, ok)

SpecDelete == InitDelete /\ [][NextDelete]_vars

(***************************************************************************)
(* The profile screen over a logged-in provider                            *)
(***************************************************************************)
InitProfile ==
  /\ session = Me
  /\ authInit = TRUE
  /\ \E n \in {2, 5} : InitRemote(n)
  /\ rLikes \in SUBSET {<<Other, 1>>}
  /\ state = LoggedIn(LoadedFeed)
  /\ fetches = EmptyBag
  /\ deletes = {}
  /\ nEvents = 0
  /\ last = Idle
  /\ OffFeedIdle

NextProfile ==
  \/ fetchUserPostsStart
  \/ \E ok \in BOOLEAN : fetchUserPostsReturn(ok)
  \/ \E i \in 1..Len(profile.posts) : erasePressed(i)
  \/ \E d \in deletes, ok \in BOOLEAN : deletePostStorage(d, ok)
  \/ \E d \in deletes, ok \in BOOLEAN : deletePostLikes(d, ok)
  \/ \E d \in deletes, ok \in BOOLEAN : deletePostRow(d, ok)
  \/ \E ok \in BOOLEAN : refetchReturn(ok)
  \/ RemoteInsert(Me)
  \/ \E e \in {"SIGNED_OUT"} : onAuthStateChange(e)

SpecProfile == InitProfile /\ [][NextProfile]_vars

(***************************************************************************)
(* The optimistic provider (src/context/AppContext.js) and the Home screen *)
(* that keeps its feed in it (src/unnamed/part_004)                        *)
(***************************************************************************)
\* a value of the posts field is an array (a sequence) or whatever else a
\* caller handed to setPosts; a function is told from an array by its domain
IsList(v) == DOMAIN v = 1..Cardinality(DOMAIN v)

\* v.length: the length of an array, the arity of a function
JsLength(v) == Cardinality(DOMAIN v)

\* prevPosts => prevPosts.map(...): a function of one parameter
Updater(payload) == [i \in {0} |-> payload]

\* ADD_POSTS of this reducer appends the payload as it is
OptAddPosts(st, payload) == [st EXCEPT !.posts = st.posts \o payload]

optReducer(st, action) ==
  CASE action.type = "SET_USER" -> [st EXCEPT !.user = action.payload]
    [] action.type = "SET_POSTS" -> [st EXCEPT !.posts = action.payload]
    [] action.type = "ADD_POSTS" -> OptAddPosts(st, action.payload)
    [] action.type = "UPDATE_POST_LIKE" ->
         \* state.posts.map throws when posts is no array: the update is lost
         IF IsList(st.posts)
         THEN UpdatePostLike(st, action.payload.postId, action.payload.liked)
         ELSE st
    [] action.type = "SET_LOADING" -> [st EXCEPT !.loading = action.payload]
    [] OTHER -> st

RECURSIVE OptDispatch(_, _)
OptDispatch(st, actions) ==
  IF actions = <<>> THEN st
  ELSE OptDispatch(optReducer(st, Head(actions)), Tail(actions))

optInitialState == [user |-> NoUser, posts |-> <<>>, loading |-> TRUE]

optInitialHome ==
  [loading |-> TRUE, refreshing |-> FALSE, loadingMore |-> FALSE,
   hasMore |-> TRUE]

offOpt == <<state, session, authInit, fetches, deletes, likeVars, profile, fp,
            rProfiles, rt>>

\* AppProvider.getCurrentUser
getCurrentUser ==
  /\ optState.loading
  /\ optState' = OptDispatch(optState, <<Act("SET_USER", session),
                                         Act("SET_LOADING", FALSE)>>)
  /\ last' = Idle
  /\ UNCHANGED <<offOpt, remoteVars, optHome, optToggles, optFetches, nEvents>>

\* a faulty updatePostLike that dispatches nothing
OptNoDispatch(st, postId, liked) == st

\* updatePostLike(postId, liked)
optUpdatePostLike(st, postId, liked) ==
  OptDispatch(st, <<Act("UPDATE_POST_LIKE",
                        [postId |-> postId, liked |-> liked])>>)

\* toggleLike up to its remote request: the optimistic update
optToggleLikeStart(postId, currentlyLiked) ==
  /\ nEvents < MaxEvents
  /\ nEvents' = nEvents + 1
  /\ optState.user # NoUser
  /\ LET t == [postId |-> postId, currentlyLiked |-> currentlyLiked,
               userId |-> optState.user, pre |-> optState.posts]
     IN /\ optState' = optUpdatePostLike(optState, postId, ~currentlyLiked)
        /\ optToggles' = optToggles (+) SetToBag({t})
        /\ last' = [op |-> "optToggleLikeStart", call |-> t]
  /\ UNCHANGED <<offOpt, remoteVars, optHome, optFetches>>

\* HomeScreen.toggleLike on a rendered item
optHomeToggleLike(i) ==
  /\ IsList(optState.posts)
  /\ i \in 1..Len(optState.posts)
  /\ optToggleLikeStart(optState.posts[i].id, optState.posts[i].user_has_liked)

\* the remote delete / upsert on likes returns
optToggleLikeReturn(t, ok) ==
  /\ BagIn(t, optToggles)
  /\ optToggles' = optToggles (-) SetToBag({t})
  /\ LET row == <<t.userId, t.postId>>
     IN /\ rLikes' = IF ~ok THEN rLikes
                     ELSE IF t.currentlyLiked THEN rLikes \ {row}
                     ELSE rLikes \cup {row}
        /\ optState' = IF ok THEN optState
                       ELSE optUpdatePostLike(optState, t.postId, t.currentlyLiked)
        /\ last' = [op |-> "optToggleLike", call |-> t, ok |-> ok,
                    alone |-> last = [op |-> "optToggleLikeStart", call |-> t]]
  /\ UNCHANGED <<offOpt, rPosts, rImages, nextId, optHome, optFetches, nEvents>>

\* HomeScreen.fetchPosts up to its posts query
optFetchPostsStart(isInitial, home) ==
  /\ nEvents < MaxEvents
  /\ nEvents' = nEvents + 1
  /\ optState.user # NoUser
  /\ ~(~home.hasMore /\ ~isInitial)
  /\ optHome' = home
  /\ optFetches' = optFetches (+) SetToBag(
       {[isInitial |-> isInitial, userId |-> optState.user,
         from |-> IF isInitial THEN 0 ELSE JsLength(optState.posts),
         contextPosts |-> optState.posts,
         pc |-> "query", data |-> <<>>, counts |-> <<>>]})
  /\ last' = Idle
  /\ UNCHANGED <<offOpt, remoteVars, optState, optToggles>>

\* HomeScreen: useEffect on [user], and onRefresh
optHomeInitialFetch ==
  \/ /\ optHome.loading
     /\ optFetchPostsStart(TRUE, optHome)
  \/ /\ ~optHome.loading
     /\ optFetchPostsStart(TRUE, [optHome EXCEPT !.refreshing = TRUE,
                                                 !.hasMore = TRUE])

\* HomeScreen.loadMore
optLoadMore ==
  /\ ~optHome.loading
  /\ ~optHome.loadingMore /\ optHome.hasMore
  /\ optFetchPostsStart(FALSE, [optHome EXCEPT !.loadingMore = TRUE])

OptFetchFinally(home) ==
  [home EXCEPT !.loading = FALSE, !.refreshing = FALSE, !.loadingMore = FALSE]

optFetchPostsQuery(f, ok) ==
  /\ BagIn(f, optFetches)
  /\ f.pc = "query"
  /\ IF ok
     THEN /\ optFetches' = (optFetches (-) SetToBag({f})) (+) SetToBag(
               {[f EXCEPT !.pc = "count",
                   !.data = Range(OrderDesc(rPosts), f.from, f.from + PAGE_SIZE - 1)]})
          /\ optHome' = optHome
     ELSE /\ optFetches' = optFetches (-) SetToBag({f})
          /\ optHome' = OptFetchFinally(optHome)
  /\ last' = Idle
  /\ UNCHANGED <<offOpt, remoteVars, optState, optToggles, nEvents>>

\* the count queries of the page return; count is null after an error
optFetchPostsCount(f, ok) ==
  /\ BagIn(f, optFetches)
  /\ f.pc = "count"
  /\ LET cnt(post) == OrElse(IF ok THEN LikeCount(rLikes, post.id) ELSE 0, 0)
     IN optFetches' = (optFetches (-) SetToBag({f})) (+) SetToBag(
          {[f EXCEPT !.pc = "like", !.counts = SeqMap(f.data, cnt)]})
  /\ last' = Idle
  /\ UNCHANGED <<offOpt, remoteVars, optState, optHome, optToggles, nEvents>>

\* the user's like queries of the page return and the page is stored
optFetchPostsLike(f, ok) ==
  /\ BagIn(f, optFetches)
  /\ f.pc = "like"
  /\ optFetches' = optFetches (-) SetToBag({f})
  /\ LET postsWithLikes ==
           [i \in 1..Len(f.data) |->
              [id |-> f.data[i].id, created_at |-> f.data[i].created_at,
               user_id |-> f.data[i].user_id, image_url |-> f.data[i].image_url,
               likes_count |-> f.counts[i],
               user_has_liked |-> ok /\ UserLike(rLikes, f.data[i].id, f.userId)]]
         payload == IF f.isInitial THEN postsWithLikes
                    ELSE f.contextPosts \o postsWithLikes
         \* [...contextPosts, ...] throws when contextPosts is no array
         spread == f.isInitial \/ IsList(f.contextPosts)
     IN IF spread
        THEN /\ optState' = OptDispatch(optState, <<Act("SET_POSTS", payload)>>)
             /\ optHome' = [OptFetchFinally(optHome) EXCEPT
                              !.hasMore = PageFull(f.data)]
        ELSE /\ optState' = optState
             /\ optHome' = OptFetchFinally(optHome)
  /\ last' = Idle
  /\ UNCHANGED <<offOpt, remoteVars, optToggles, nEvents>>

InitOptimistic ==
  /\ optState = optInitialState
  /\ optHome = optInitialHome
  /\ optToggles = EmptyBag
  /\ optFetches = EmptyBag
  /\ rt = 0
  /\ session = Me
  /\ InitRemote(2)
  /\ rLikes \in SUBSET {<<Me, 1>>, <<Other, 1>>}
  /\ state = initialState
  /\ authInit = FALSE
  /\ fetches = EmptyBag
  /\ deletes = {}
  /\ LikesIdle
  /\ profile = initialProfile
  /\ fp = 0
  /\ rProfiles = {}
  /\ nEvents = 0
  /\ last = Idle

\* setPosts(posts) of the provider
optSetPosts(st, posts) == OptDispatch(st, <<Act("SET_POSTS", posts)>>)

\* another user likes or unlikes a post and the channel delivers the event:
\* handleLikeChange of the Home screen hands an updater to the provider
optLikeEvent(postId) ==
  /\ nEvents < MaxEvents
  /\ nEvents' = nEvents + 1
  /\ LET row == <<Other, postId>>
         e == LikeEvent(IF row \in rLikes THEN "DELETE" ELSE "INSERT",
                        postId, Other)
     IN /\ rLikes' = IF row \in rLikes THEN rLikes \ {row}
                     ELSE rLikes \cup {row}
        /\ optState' = optSetPosts(optState, Updater(e))
        /\ last' = [op |-> "optLikeEvent", event |-> e]
  /\ UNCHANGED <<offOpt, rPosts, rImages, nextId, optHome, optToggles,
                 optFetches>>

NextOptimistic ==
  \/ getCurrentUser
  \/ optHomeInitialFetch
  \/ optLoadMore
  \/ \E f \in BagToSet(optFetches), ok \in BOOLEAN : optFetchPostsQuery(f, ok)
  \/ \E f \in BagToSet(optFetches), ok \in BOOLEAN : optFetchPostsCount(f, ok)
  \/ \E f \in BagToSet(optFetches), ok \in BOOLEAN : optFetchPostsLike(f, ok)
  \/ \E i \in 1..JsLength(optState.posts) : optHomeToggleLike(i)
  \/ \E t \in BagToSet(optToggles), ok \in BOOLEAN : optToggleLikeReturn(t, ok)

SpecOptimistic == InitOptimistic /\ [][NextOptimistic]_vars

\* the same screen with its subscription to the likes table
NextSubscribed ==
  \/ NextOptimistic
  \/ \E p \in rPosts : optLikeEvent(p.id)

SpecSubscribed == InitOptimistic /\ [][NextSubscribed]_vars

(***************************************************************************)
(* ProfileScreen.fetchProfile with its delayed re-issue                    *)
(* (the profile screen in src/screens/SignupScreen.js)                     *)
(***************************************************************************)
FP_RETRIES == 3

fpInitial == [calls |-> EmptyBag, timers |-> EmptyBag, profile |-> FALSE]

offFp == <<state, session, authInit, fetches, deletes, likeVars, optVars,
           profile, remoteVars>>

\* useEffect on mount: fetchProfile()
fetchProfileMount ==
  /\ nEvents < MaxEvents
  /\ nEvents' = nEvents + 1
  /\ fp' = [fp EXCEPT !.calls = @ (+) SetToBag({[retries |-> FP_RETRIES, attempt |-> 1]})]
  /\ last' = [op |-> "fetchProfileCall", trigger |-> "mount"]
  /\ UNCHANGED <<offFp, rProfiles>>

\* a faulty fetchProfile that ignores the retries counter
RetryWhileNoRow(outcome, retries) == outcome = "norow"

\* if (!data) { if (retries > 0) setTimeout(...) }
ShouldRetry(outcome, retries) == outcome = "norow" /\ retries > 0

\* what getUser and the profiles query of one call come back with
ProfileOutcome(ok) ==
  IF session = NoUser THEN "nouser"
  ELSE IF ~ok THEN "error"
  ELSE IF session \in rProfiles THEN "row" ELSE "norow"

\* getUser and the profiles query of one fetchProfile call return
fetchProfileReturn(c, ok) ==
  /\ BagIn(c, fp.calls)
  /\ LET outcome == ProfileOutcome(ok)
         retry == ShouldRetry(outcome, c.retries)
     IN /\ fp' = [fp EXCEPT
              !.calls = @ (-) SetToBag({c}),
              !.timers = IF retry
                         THEN @ (+) SetToBag({[retries |-> c.retries - 1,
                                               attempt |-> c.attempt + 1]})
                         ELSE @,
              !.profile = IF outcome = "row" THEN TRUE ELSE @]
        /\ last' = [op |-> "fetchProfileReturn", outcome |-> outcome,
                    retries |-> c.retries, scheduled |-> retry]
  /\ UNCHANGED <<offFp, rProfiles, nEvents>>

\* the 1 s timer fires: fetchProfile(retries - 1)
fetchProfileTimer(t) ==
  /\ BagIn(t, fp.timers)
  /\ fp' = [fp EXCEPT !.timers = @ (-) SetToBag({t}),
                      !.calls = @ (+) SetToBag({t})]
  /\ last' = [op |-> "fetchProfileCall", trigger |-> "timer"]
  /\ UNCHANGED <<offFp, rProfiles, nEvents>>

\* the backend creates the profile row of a freshly signed-up user
RemoteProfileInsert ==
  /\ nEvents < MaxEvents
  /\ nEvents' = nEvents + 1
  /\ session # NoUser /\ session \notin rProfiles
  /\ rProfiles' = rProfiles \cup {session}
  /\ last' = Idle
  /\ UNCHANGED <<offFp, fp>>

InitFetchProfile ==
  /\ fp = fpInitial
  /\ session \in {NoUser, Me}
  /\ rProfiles \in {{}, {Me}}
  /\ InitRemote(2)
  /\ rLikes = {}
  /\ state = initialState
  /\ authInit = FALSE
  /\ fetches = EmptyBag
  /\ deletes = {}
  /\ LikesIdle
  /\ OptIdle
  /\ profile = initialProfile
  /\ nEvents = 0
  /\ last = Idle

NextFetchProfile ==
  \/ fetchProfileMount
  \/ \E c \in BagToSet(fp.calls), ok \in BOOLEAN : fetchProfileReturn(c, ok)
  \/ \E t \in BagToSet(fp.timers) : fetchProfileTimer(t)
  \/ RemoteProfileInsert

SpecFetchProfile == InitFetchProfile /\ [][NextFetchProfile]_vars

(***************************************************************************)
(* The Home screen that keeps the feed in local state and subscribes to    *)
(* the change events of the likes table (src/unnamed/part_003)             *)
(***************************************************************************)
MaxCount == 2          \* largest likes_count a row of the feed starts with

offRt == <<state, session, authInit, fetches, deletes, likeVars, profile, fp,
           rProfiles, optState, optHome, optToggles, optFetches>>

\* currentUser as the subscription's callback sees it: the callback is the
\* handleLikeChange of the first render, where currentUser is still null
ListenerUser == NoUser

\* handleLikeChange(payload): the updater it gives to setPosts
handleLikeChange(posts, payload) ==
  LET upd(post) ==
        IF post.id = payload.post_id
        THEN IF payload.eventType = "INSERT"
             THEN [post EXCEPT
                     !.likes_count = OrElse(post.likes_count, 0) + 1,
                     !.user_has_liked = IF payload.user_id = ListenerUser
                                        THEN TRUE ELSE @]
             ELSE IF payload.eventType = "DELETE"
             THEN [post EXCEPT
                     !.likes_count = Max(0, OrElse(post.likes_count, 0) - 1),
                     !.user_has_liked = IF payload.user_id = ListenerUser
                                        THEN FALSE ELSE @]
             ELSE post
        ELSE post
  IN SeqMap(posts, upd)

\* toggleLike: the optimistic update
RtOptimistic(posts, postId, currentlyLiked) ==
  LET upd(post) ==
        IF post.id = postId
        THEN [post EXCEPT
                !.user_has_liked = ~currentlyLiked,
                !.likes_count = IF currentlyLiked
                                THEN OrElse(post.likes_count, 1) - 1
                                ELSE OrElse(post.likes_count, 0) + 1]
        ELSE post
  IN SeqMap(posts, upd)

\* toggleLike: the revert in its catch block
RtRevert(posts, postId, currentlyLiked) ==
  LET upd(post) ==
        IF post.id = postId
        THEN [post EXCEPT
                !.user_has_liked = currentlyLiked,
                !.likes_count = IF currentlyLiked
                                THEN OrElse(post.likes_count, 0) + 1
                                ELSE OrElse(post.likes_count, 1) - 1]
        ELSE post
  IN SeqMap(posts, upd)

\* the user taps the heart of item i: toggleLike up to its remote request
rtToggleLike(i) ==
  /\ nEvents < MaxEvents
  /\ nEvents' = nEvents + 1
  /\ i \in 1..Len(rt.posts)
  /\ LET post == rt.posts[i]
         t == [postId |-> post.id, currentlyLiked |-> post.user_has_liked,
               base |-> post.likes_count, n |-> rt.calls + 1]
     IN rt' = [rt EXCEPT
                 !.posts = RtOptimistic(rt.posts, post.id, post.user_has_liked),
                 !.toggles = @ (+) SetToBag({t}),
                 !.calls = @ + 1]
  /\ last' = Idle
  /\ UNCHANGED <<offRt, remoteVars>>

\* getUser and the delete / upsert on likes return; the datastore publishes
\* the change of the row on the channel
rtToggleLikeReturn(t, ok) ==
  /\ BagIn(t, rt.toggles)
  /\ LET row == <<session, t.postId>>
         \* user is null without a session: user.id throws inside the try
         done == ok /\ session # NoUser
         event == IF ~done THEN {}
                  ELSE IF t.currentlyLiked
                       THEN IF row \in rLikes
                            THEN {LikeEvent("DELETE", t.postId, session)}
                            ELSE {}
                       ELSE IF row \in rLikes
                            THEN {LikeEvent("UPDATE", t.postId, session)}
                            ELSE {LikeEvent("INSERT", t.postId, session)}
     IN /\ rLikes' = IF ~done THEN rLikes
                     ELSE IF t.currentlyLiked THEN rLikes \ {row}
                     ELSE rLikes \cup {row}
        /\ rt' = [rt EXCEPT
                    !.toggles = @ (-) SetToBag({t}),
                    !.events = @ (+) SetToBag(event),
                    !.posts = IF done THEN @
                              ELSE RtRevert(@, t.postId, t.currentlyLiked),
                    !.done = IF done /\ event # {} THEN @ \cup {t} ELSE @]
  /\ last' = Idle
  /\ UNCHANGED <<offRt, rPosts, rImages, nextId, nEvents>>

\* another user likes or unlikes a post; the datastore publishes the change
rtOtherLike(postId) ==
  /\ nEvents < MaxEvents
  /\ nEvents' = nEvents + 1
  /\ LET row == <<Other, postId>>
     IN IF row \in rLikes
        THEN /\ rLikes' = rLikes \ {row}
             /\ rt' = [rt EXCEPT !.events = @ (+)
                         SetToBag({LikeEvent("DELETE", postId, Other)})]
        ELSE /\ rLikes' = rLikes \cup {row}
             /\ rt' = [rt EXCEPT !.events = @ (+)
                         SetToBag({LikeEvent("INSERT", postId, Other)})]
  /\ last' = Idle
  /\ UNCHANGED <<offRt, rPosts, rImages, nextId>>

\* the channel delivers an event to the subscription's callback
rtLikeEvent(e) ==
  /\ BagIn(e, rt.events)
  /\ rt' = [rt EXCEPT !.events = @ (-) SetToBag({e}),
                      !.posts = handleLikeChange(@, e)]
  /\ last' = [op |-> "rtLikeEvent", event |-> e]
  /\ UNCHANGED <<offRt, remoteVars, nEvents>>

\* the feed as fetchPosts of this screen stores it: the rows as the table
\* holds them, user_has_liked from the joined likes
RtFeed(count, knowsUser) ==
  LET wl(post) == [id |-> post.id, created_at |-> post.created_at,
                   user_id |-> post.user_id, image_url |-> post.image_url,
                   likes_count |-> count,
                   user_has_liked |-> knowsUser /\ UserLike(rLikes, post.id, Me)]
  IN SeqMap(OrderDesc(rPosts), wl)

InitRealtime ==
  /\ session \in {NoUser, Me}
  /\ InitRemote(2)
  /\ rLikes \in SUBSET {<<Me, 1>>, <<Other, 1>>}
  /\ \E count \in 0..MaxCount, knowsUser \in BOOLEAN :
       rt = [posts |-> RtFeed(count, knowsUser), toggles |-> EmptyBag,
             events |-> EmptyBag, calls |-> 0, done |-> {}]
  /\ state = initialState
  /\ authInit = FALSE
  /\ fetches = EmptyBag
  /\ deletes = {}
  /\ LikesIdle
  /\ optState = 0 /\ optHome = 0 /\ optToggles = EmptyBag /\ optFetches = EmptyBag
  /\ profile = initialProfile
  /\ fp = 0
  /\ rProfiles = {}
  /\ nEvents = 0
  /\ last = Idle

NextRealtime ==
  \/ \E i \in 1..Len(rt.posts) : rtToggleLike(i)
  \/ \E t \in BagToSet(rt.toggles), ok \in BOOLEAN : rtToggleLikeReturn(t, ok)
  \/ \E p \in rPosts : rtOtherLike(p.id)
  \/ \E e \in BagToSet(rt.events) : rtLikeEvent(e)

SpecRealtime == InitRealtime /\ [][NextRealtime]_vars

(***************************************************************************)
(* Properties of the feed                                                  *)
(***************************************************************************)
\* C1: the feed is reverse-chronological in every reachable state: every
\* post of the provider's list has a created_at not older than the post
\* that follows it.
FeedSorted ==
  \A i \in 1..(Len(state.posts) - 1) :
     state.posts[i].created_at >= state.posts[i + 1].created_at

\* C7: right after a fetchPosts call has completed successfully, hasMore is
\* true exactly when the page the remote query returned held PAGE_SIZE rows.
HasMoreIffFullPage ==
  (last.op = "fetch" /\ last.ok) => (state.hasMore <=> (last.rows = PAGE_SIZE))

\* an initial fetch has completed with a short page: SET_POSTS has set
\* hasMore and SET_HAS_MORE has cleared it again
ShortInitialPage ==
  /\ last.op = "fetch" /\ last.ok /\ last.isInitial
  /\ last.rows < PAGE_SIZE
  /\ ~last.before.hasMore
  /\ ~state.hasMore

\* C9: the ids of the posts in the provider's list are pairwise distinct.
FeedDistinct ==
  \A i, j \in 1..Len(state.posts) :
     i # j => state.posts[i].id # state.posts[j].id

\* a load-more page that repeats posts of the feed has been added
RepeatedPageAdded ==
  /\ last.op = "fetch" /\ last.ok /\ ~last.isInitial
  /\ last.ids \cap Ids(last.before.posts) # {}
  /\ last.ids \ Ids(last.before.posts) # {}

(***************************************************************************)
(* Properties of the like toggle of the provider                           *)
(***************************************************************************)
PostOf(posts, id) == {posts[i] : i \in {j \in 1..Len(posts) : posts[j].id = id}}

\* C4 as stated: a like toggle mutates the local feed (user_has_liked of the
\* post) immediately on the user action, before the remote insert/delete is
\* confirmed.
LikeToggleIsOptimistic ==
  last.op = "toggleLikeStart" =>
     \A post \in PostOf(state.posts, last.postId) :
        post.user_has_liked = ~last.currentlyLiked

\* C4 amended: the provider leaves the feed as it is while the remote
\* insert/delete is in flight; it changes user_has_liked and likes_count of
\* the post only once the remote call has succeeded, and changes nothing when
\* the remote call fails.
LikeToggleAfterConfirmation ==
  /\ last.op = "toggleLikeStart" => state.posts = last.before.posts
  /\ last.op = "toggleLike" =>
       IF last.result.value.success
       THEN /\ \A post \in PostOf(state.posts, last.postId) :
                  post.user_has_liked = ~last.currentlyLiked
            /\ last.result.value.liked = ~last.currentlyLiked
       ELSE state.posts = last.before.posts

\* a toggle on a post of the feed whose remote call failed has completed
FailedToggleCompleted ==
  /\ last.op = "toggleLike"
  /\ last.failed
  /\ ~last.result.value.success
  /\ PostOf(state.posts, last.postId) # {}

LikesConsistent(posts) ==
  \A i \in 1..Len(posts) :
     /\ posts[i].likes_count = LikeCount(rLikes, posts[i].id)
     /\ posts[i].user_has_liked = UserLike(rLikes, posts[i].id, Me)

\* C10: starting from a feed that matches the remote likes table, with only
\* the current user acting, once every toggleLike call issued by handleLike
\* has completed, likes_count of each post equals the number of remote like
\* rows of the post and user_has_liked equals whether the user's row exists.
QuiescentLikesConsistent ==
  toggles = EmptyBag => LikesConsistent(state.posts)

(***************************************************************************)
(* Properties of the results of the provider's operations                  *)
(***************************************************************************)
ProviderOps == {"toggleLike", "deletePost", "fetchPostWithLikes", "fetch"}

\* the failure report of each operation
ReportsFailure ==
  CASE last.op \in {"toggleLike", "deletePost"} ->
         /\ ~last.result.value.success
         /\ "error" \in DOMAIN last.result.value
    [] last.op = "fetchPostWithLikes" -> last.result.value = NoPost
    [] last.op = "fetch" -> state.posts = last.before.posts
    [] OTHER -> TRUE

\* C6 as stated: for every outcome of every remote request they issue, the
\* four operations complete without propagating an exception, and a failure
\* (of any request) is reported as {success: false, error}, null or an
\* unchanged posts list.
EveryFailureReported ==
  last.op \in ProviderOps =>
     /\ last.result.kind = "return"
     /\ last.failed => ReportsFailure

\* C6 amended: the four operations never propagate an exception; a failure of
\* the request that decides the operation (the likes insert/delete of
\* toggleLike, the posts delete of deletePost, the posts select of
\* fetchPostWithLikes and of fetchPosts) is reported as {success: false,
\* error}, null or an unchanged posts list. Errors of the other requests are
\* logged or ignored and do not change the result.
DecidingFailureReported ==
  last.op \in ProviderOps =>
     /\ last.result.kind = "return"
     /\ (IF last.op = "fetch" THEN ~last.ok ELSE last.decided) => ReportsFailure

\* deletePost has completed after the posts delete returned an error
DeleteFailureReported ==
  /\ last.op = "deletePost"
  /\ last.decided
  /\ ~last.result.value.success

(***************************************************************************)
(* Properties of the profile screen                                        *)
(***************************************************************************)
\* C8: when deletePost returned success: false, then once the confirm handler
\* has completed the profile's list holds every post that exists remotely for
\* the user, whatever the outcome of the refetch.
DeleteRolledBack ==
  (last.op = "handleDeletePost" /\ ~last.success /\ session # NoUser) =>
     \A p \in rPosts : p.user_id = session => p.id \in Ids(profile.posts)

(***************************************************************************)
(* Properties of the optimistic provider                                   *)
(***************************************************************************)
\* C2: when toggleLike(postId, currentlyLiked) is called on a post whose
\* user_has_liked equals currentlyLiked and the remote request fails, then
\* after toggleLike has completed with no other action in between, the post's
\* user_has_liked and likes_count equal their values before the call and
\* every other post is unchanged.
RollbackExact ==
  (/\ last.op = "optToggleLike"
   /\ ~last.ok
   /\ last.alone
   /\ \A post \in PostOf(last.call.pre, last.call.postId) :
         post.user_has_liked = last.call.currentlyLiked /\ post.likes_count >= 0)
  => optState.posts = last.call.pre

\* C3: every toggleLike call made while a user is logged in has set the
\* post's local user_has_liked to the opposite of currentlyLiked while its
\* remote request has not returned yet.
OptimisticBeforeRemote ==
  (last.op = "optToggleLikeStart" /\ BagIn(last.call, optToggles)) =>
     \A post \in PostOf(optState.posts, last.call.postId) :
        post.user_has_liked = ~last.call.currentlyLiked

\* a toggle on a post of the feed has been issued and is still in flight
OptimisticToggleInFlight ==
  /\ last.op = "optToggleLikeStart"
  /\ BagIn(last.call, optToggles)
  /\ PostOf(optState.posts, last.call.postId) # {}
  /\ optState.posts # last.call.pre

OwnLikeMerged(t) ==
  /\ nEvents = 1
  /\ rt.calls = 1
  /\ t \in rt.done
  /\ rt.toggles = EmptyBag
  /\ rt.events = EmptyBag

\* C11: when the current user likes a post, the remote upsert succeeds and
\* the INSERT event of that like row is delivered, the post's likes_count is
\* exactly one higher than before the like; after an unlike of a post with
\* likes_count >= 1 and its DELETE event it is exactly one lower.
OwnLikeCountedOnce ==
  \A t \in rt.done :
     OwnLikeMerged(t) =>
        \A post \in PostOf(rt.posts, t.postId) :
           IF t.currentlyLiked
           THEN t.base >= 1 => post.likes_count = t.base - 1
           ELSE post.likes_count = t.base + 1

(***************************************************************************)
(* Properties of the provider's posts under the subscribed Home screen     *)
(***************************************************************************)
\* C12: the posts state of the provider is a list (a sequence of posts) in
\* every reachable state, also after realtime like events handled by the
\* Home screen whose handleLikeChange calls the provider's setPosts.
PostsIsList == IsList(optState.posts)

(***************************************************************************)
(* Properties of the feed under sign-out and overlapping fetches           *)
(***************************************************************************)
\* C13: once the auth listener has processed an event with no session, the
\* provider's posts list is empty for as long as user is null, also when a
\* fetch issued before the sign-out completes afterwards.
ClearedWhileSignedOut ==
  (session = NoUser /\ state.user = NoUser) => state.posts = <<>>

\* the fetchPosts(false) calls that have not completed yet
LoadMoreInFlight ==
  LET calls == {f \in BagToSet(fetches) : ~f.isInitial}
  IN IF calls = {} THEN 0
     ELSE CopiesIn(CHOOSE f \in calls : TRUE, fetches) + Cardinality(calls) - 1

\* C14: at most one load-more fetch is in flight at any time, under any
\* interleaving of end-of-list events, pull-to-refresh and fetch completions.
SingleLoadMore == LoadMoreInFlight <= 1

(***************************************************************************)
(* Properties of a failed fetch                                            *)
(***************************************************************************)
\* C15: if the posts query of fetchPosts (initial or load-more) returns an
\* error, the call leaves the feed untouched: issuing the call changes neither
\* posts nor hasMore, and right after the call has completed posts and
\* hasMore are what they were and loading and loadingMore are both false.
FailedFetchUntouched ==
  /\ \A isInitial \in BOOLEAN :
        /\ FetchStarted(state, isInitial).posts = state.posts
        /\ FetchStarted(state, isInitial).hasMore = state.hasMore
  /\ (last.op = "fetch" /\ ~last.ok) =>
        /\ state.posts = last.before.posts
        /\ state.hasMore = last.before.hasMore
        /\ ~state.loading
        /\ ~state.loadingMore

\* a load-more fetch on a loaded feed has completed after its posts query
\* returned an error
FailedLoadMoreCompleted ==
  /\ last.op = "fetch" /\ ~last.ok /\ ~last.isInitial
  /\ Len(state.posts) > 0
  /\ last.before.loadingMore

(***************************************************************************)
(* Properties of deletePost                                                *)
(***************************************************************************)
\* C16: deletePost removes the post from the local feed only after the posts
\* delete returned without error: if that delete returned an error the posts
\* list is what it was (no DELETE_POST) and the result is {success: false,
\* error}; a call made while no user is logged in returns {success: false}
\* and never gets as far as a remote request (no call without a user is ever
\* in flight).
DeleteOnlyAfterRemote ==
  /\ \A d \in deletes : d.userId # NoUser
  /\ last.op = "deletePost" =>
        /\ last.decided =>
              /\ state.posts = last.postsBefore
              /\ last.result = Return(Failure("error"))
        /\ last.userId = NoUser =>
              /\ state.posts = last.postsBefore
              /\ last.result.kind = "return"
              /\ ~last.result.value.success
        /\ state.posts # last.postsBefore =>
              /\ ~last.decided
              /\ last.result = Return([success |-> TRUE])

\* the posts delete of a post shown in the feed returned an error and
\* deletePost has completed
FailedDeleteKeepsPost ==
  /\ last.op = "deletePost"
  /\ last.decided
  /\ last.userId # NoUser
  /\ PostOf(state.posts, last.postId) # {}

\* C17: whenever deletePost returns {success: true} and has removed the post
\* from the local feed, no row with that post id remains in the remote posts
\* table, whoever the caller is, the owner of the post or not.
DeletedMeansGone ==
  (/\ last.op = "deletePost"
   /\ last.result = Return([success |-> TRUE])
   /\ PostOf(last.postsBefore, last.postId) # {}
   /\ PostOf(state.posts, last.postId) = {})
  => \A p \in rPosts : p.id # last.postId

\* C18: deletePost is all-or-nothing on the remote side: a call that returns
\* {success: false} has erased nothing remotely, neither the stored image nor
\* a like row of the post (the post row itself is erased only by the request
\* whose error makes the call fail).
FailureErasedNothing ==
  (/\ last.op = "deletePost"
   /\ last.result.kind = "return"
   /\ ~last.result.value.success)
  => ~last.erased

====
